---- MODULE Spec2Model ----
(***************************************************************************)
(* Model of src/sexismanalyzer.py: class SHAPSexismAnalyzer.                *)
(*                                                                         *)
(* Texts and tokens are TLA+ strings; a character is a string of length 1. *)
(* Scores and thresholds are integers in thousandths (0.95 is 950), so the *)
(* comparison cumulative >= threshold is exact.  A random draw u in [0,1)  *)
(* is an element of Draws, also in thousandths.                            *)
(***************************************************************************)
EXTENDS Integers, Sequences, FiniteSets, TLC

VARIABLES pc, op, text, language, threshold, tokens_arg,
          token_scores, fallback_ran, selected_tokens, highlighted_text,
          result, exc

vars == <<pc, op, text, language, threshold, tokens_arg,
          token_scores, fallback_ran, selected_tokens, highlighted_text,
          result, exc>>

---------------------------------------------------------------------------
(* Loops, characters and the string functions the code uses *)

\* for i in range(lo, hi + 1): st = Body(st, i)
\* The range is halved to keep the evaluation shallow; the left half is
\* evaluated before the right half starts.
RECURSIVE ForEach(_, _, _, _)
ForEach(Body(_, _), lo, hi, st) ==
  IF lo >= hi THEN (IF lo > hi THEN st ELSE Body(st, lo))
  ELSE CHOOSE r \in { ForEach(Body, ((lo + hi) \div 2) + 1, hi, left) :
                        left \in { ForEach(Body, lo, (lo + hi) \div 2, st) } } : TRUE

Min(S) == CHOOSE x \in S : \A y \in S : x <= y

\* The elements of a set of integers in ascending order.
Ascending(S) ==
  [k \in 1..Cardinality(S) |->
     CHOOSE x \in S : Cardinality({ y \in S : y < x }) = k - 1]

Char(s, i) == SubSeq(s, i, i)

CharsOf(s) == { Char(s, i) : i \in 1..Len(s) }

UpperLetters == "ABCDEFGHIJKLMNOPQRSTUVWXYZ"
LowerLetters == "abcdefghijklmnopqrstuvwxyz"
UpperAccented == "ÁÉÍÓÚÑÜ"
LowerAccented == "áéíóúñü"
Digits == "0123456789"
OctDigits == "01234567"

AsciiLetters == CharsOf(LowerLetters \o UpperLetters)

\* Python's `sub in s` for strings.
Contains(s, sub) ==
  \E i \in 0..(Len(s) - Len(sub)) : SubSeq(s, i + 1, i + Len(sub)) = sub

\* The lower-case form of each upper-case character.
LowerTable ==
  LET U == UpperLetters \o UpperAccented
      L == LowerLetters \o LowerAccented
  IN  [c \in CharsOf(U) |-> Char(L, CHOOSE i \in 1..Len(U) : Char(U, i) = c)]

\* str.lower() on one character.
LowerChar(c) == IF c \in DOMAIN LowerTable THEN LowerTable[c] ELSE c

\* str.lower()
Lower(s) ==
  LET Body(acc, i) == acc \o LowerChar(Char(s, i))
  IN  ForEach(Body, 1, Len(s), "")

IsSpace(c) == c \in {" ", "\t", "\n", "\r", "\f"}

\* str.split() with no argument: runs of whitespace separate, no empty words.
Split(s) ==
  LET Flush(st) == IF st.cur = "" THEN st.words ELSE Append(st.words, st.cur)
      Body(st, i) ==
        IF IsSpace(Char(s, i))
        THEN [words |-> Flush(st), cur |-> ""]
        ELSE [words |-> st.words, cur |-> st.cur \o Char(s, i)]
  IN  Flush(ForEach(Body, 1, Len(s), [words |-> <<>>, cur |-> ""]))

\* re.sub(r'[^a-zA-Z]', '', word)
CleanWord(w) ==
  LET Body(acc, i) == IF Char(w, i) \in AsciiLetters THEN acc \o Char(w, i) ELSE acc
  IN  ForEach(Body, 1, Len(w), "")

\* words[:n]
Take(seq, n) == SubSeq(seq, 1, IF Len(seq) < n THEN Len(seq) ELSE n)

SeqToSet(seq) == { seq[i] : i \in 1..Len(seq) }

\* A sort that is not stable: an item goes in front of the items of equal key.
InsertDescUnstable(sorted, x) ==
  LET k == Cardinality({ j \in 1..Len(sorted) : sorted[j].key > x.key })
  IN  SubSeq(sorted, 1, k) \o <<x>> \o SubSeq(sorted, k + 1, Len(sorted))

\* sorted(items, key=..., reverse=True) on records with a field key: stable,
\* items of equal key keep their order.  x goes behind every item whose key
\* is at least its own.
InsertDesc(sorted, x) ==
  LET k == Cardinality({ j \in 1..Len(sorted) : sorted[j].key >= x.key })
  IN  SubSeq(sorted, 1, k) \o <<x>> \o SubSeq(sorted, k + 1, Len(sorted))

SortDesc(items) ==
  LET Body(acc, i) == InsertDesc(acc, items[i])
  IN  ForEach(Body, 1, Len(items), <<>>)

---------------------------------------------------------------------------
(* The inputs of the calls *)

\* Number of pieces (a word with the separator before it) of an input text.
MaxPieces == 10

\* Period of the stream of random draws of one call.
DrawPeriod == 2

\* Length of the token list handed to highlight_tokens.
MaxTokens == 2

\* The draws u of np.random.uniform, in thousandths of [0, 1).
Draws == {0, 400, 800}

Patterns == [1..DrawPeriod -> Draws]

\* Sample texts; an input text is the first pieces of one of them.
Corpora ==
  { << "Slut", " women,", " girls,", " wife:", " biggest", " bitches",
       " teaching", " pregnant", " gang", " dressed", " like", " her",
       " Kitchen" >>,
    << " ", "Hi!", " xyzzy", "\ta1", " Xyzzy,", "  Plugh", " quux", " xyzzy",
       " and", " so", " on", " ..." >>,
    << "Las", " mujeres", " feministas", " machistas", " en", " la",
       " cocina,", " señor", " y", " dama", " de", " golf" >>,
    << "My", " Wife's", " Kitchen" >> }

FirstPieces(pieces, k) ==
  LET Body(acc, i) == acc \o pieces[i]
  IN  ForEach(Body, 1, IF k < Len(pieces) THEN k ELSE Len(pieces), "")

Texts == { FirstPieces(c, k) : c \in Corpora, k \in 0..MaxPieces }

Languages == {"en", "es", "fr"}

Thresholds == {0, 500, 950, 1500}

\* Inputs of highlight_tokens called on its own.
HighlightTexts ==
  { "She works in the Kitchen",
    "Women: the woman's KITCHEN, the kitchen",
    "a\\n\\n\\n\\n\\n b\\\\c" }

HighlightTokens ==
  { "kitchen", "the kitchen", "women", "men", "", "absent",
    "\\n\\n\\n\\n\\n", "b\\\\c" }

TokenLists == UNION { [1..n -> HighlightTokens] : n \in 0..MaxTokens }

---------------------------------------------------------------------------
(* SHAPSexismAnalyzer.__init__: the keyword table *)

ImportantTokens ==
  [ en |->
      [ high_importance |->
          << "slut", "women", "girls", "fem", "wife", "scholar", "woman",
             "onde", "ches", "teaching", "stitute", "pregnant", "gang",
             "men", "biggest", "bl", "girl", "bit", "pen", "financial" >>,
        medium_importance |->
          << "feminist", "periods", "pro", "her", "ok", "she", "boys",
             "ti", "like", "mbo", "ips", "ts", "coverage", "really",
             "wife", "dies", "finger", "trophy", "dressed" >>,
        sexist_indicators |->
          << "kitchen", "belong", "emotional", "weak", "stupid", "makeup",
             "dress", "hysteric", "irrational", "shopping", "gossip",
             "moody", "sensitive", "drivers", "protect" >> ],
    es |->
      [ high_importance |->
          << "nar", "masculino", "prend", "mach", "zo", "mujeres", "mans",
             "señor", "feminist", "mujer", "lab", "vas", "hombre", "mach",
             "dama", "tu", "bia", "od", "sexual", "fem" >>,
        medium_importance |->
          << "femenino", "doctor", "princesa", "nen", "masculin", "mujeres",
             "niña", "bella", "ton", "niños", "ment", "novi", "apa",
             "ones", "ios", "var", "novia", "bian", "golf" >>,
        sexist_indicators |->
          << "cocina", "emocionales", "débil", "estúpida", "maquillaje",
             "histérica", "irracional", "compras", "sensibles", "conductoras",
             "proteger", "servir", "natural", "amargadas" >> ] ]

\* A lookup that falls back to English for a language the table lacks.
LookupLanguageOrEnglish(lang) ==
  [exc |-> "",
   lists |-> IF lang \in DOMAIN ImportantTokens THEN ImportantTokens[lang]
             ELSE ImportantTokens["en"]]

\* self.important_tokens[language]: a missing key raises KeyError.
LookupLanguage(lang) ==
  IF lang \in DOMAIN ImportantTokens
  THEN [exc |-> "", lists |-> ImportantTokens[lang]]
  ELSE [exc |-> "KeyError", lists |-> ImportantTokens["en"]]

---------------------------------------------------------------------------
(* get_important_tokens *)

\* The default of the parameter threshold, 0.95.
DefaultThreshold == 950

\* words[:5]
FallbackWords == 5

\* len(clean_word) > 2
MinWordLen == 2

\* len(selected_tokens) >= 10
MaxSelected == 10

\* token_scores is a dict: a sequence of entries in insertion order.  Assigning
\* to a key already present replaces its value and keeps its position.
HasKey(d, k) == \E i \in 1..Len(d) : d[i].token = k

\* A dict that keeps one entry per assignment instead of one per key.
DictPutAppending(d, k, v) == Append(d, [token |-> k, score |-> v])

DictPut(d, k, v) ==
  IF HasKey(d, k)
  THEN [i \in 1..Len(d) |-> IF d[i].token = k THEN [token |-> k, score |-> v] ELSE d[i]]
  ELSE Append(d, [token |-> k, score |-> v])

\* The n-th draw (from 0) of the call's random stream.
Draw(pat, n) == pat[(n % Len(pat)) + 1]

\* np.random.uniform(low, high) = low + (high - low) * u, u the draw.
Uniform(low, high, u) == low + ((high - low) * u) \div 1000

\* One of the three keyword loops.  st = [scores, n]: the dict and the number
\* of draws made.  guarded: the loop has the test `token not in token_scores`.
ScoreKeywords(list, text_lower, st0, low, high, guarded, pat) ==
  LET Body(st, i) ==
        IF /\ Contains(text_lower, list[i])
           /\ (guarded => ~HasKey(st.scores, list[i]))
        THEN [scores |-> DictPut(st.scores, list[i],
                                 Uniform(low, high, Draw(pat, st.n))),
              n |-> st.n + 1]
        ELSE st
  IN  ForEach(Body, 1, Len(list), st0)

\* A fallback that looks at every word of the text.
FallbackAllWords(words) == words

\* The words the fallback looks at.
FallbackSlice(words) == Take(words, FallbackWords)

\* The fallback loop over words[:5].
ScoreFallback(words, st0, pat) ==
  LET Body(st, i) ==
        LET clean_word == CleanWord(words[i])
        IN  IF Len(clean_word) > MinWordLen
            THEN [scores |-> DictPut(st.scores, clean_word,
                                     Uniform(100, 400, Draw(pat, st.n))),
                  n |-> st.n + 1]
            ELSE st
  IN  ForEach(Body, 1, Len(words), st0)

\* sorted(token_scores.items(), key=lambda x: x[1], reverse=True)
SortByScore(d) ==
  LET keyed == [i \in 1..Len(d) |-> [key |-> d[i].score, val |-> d[i]]]
      s == SortDesc(keyed)
  IN  [i \in 1..Len(s) |-> s[i].val]

\* sum(score for _, score in sorted_tokens)
SumScores(d) ==
  LET Body(acc, i) == acc + d[i].score
  IN  ForEach(Body, 1, Len(d), 0)

\* A threshold test on the sum of the raw scores, not on their share of the
\* total.
ReachedThresholdRawScore(cum, total, thr) == cum >= thr

\* cumulative >= threshold, cumulative = cum / total_importance (0 when the
\* total is not positive).
ReachedThreshold(cum, total, thr) ==
  IF total > 0 THEN cum * 1000 >= thr * total ELSE 0 >= thr

\* A cap test that stops one token late.
ReachedCapLate(n) == n > MaxSelected

\* len(selected_tokens) >= 10
ReachedCap(n) == n >= MaxSelected

\* A selection loop that tests the stop condition before it appends.
SelectFromTestFirst(sorted, total, thr) ==
  LET Body(st, i) ==
        IF st.stopped THEN st
        ELSE LET cum2 == IF total > 0 THEN st.cumulative + sorted[i].score
                         ELSE st.cumulative
             IN  IF ReachedThreshold(cum2, total, thr) \/ ReachedCap(Len(st.selected))
                 THEN [st EXCEPT !.stopped = TRUE]
                 ELSE [selected |-> Append(st.selected, sorted[i].token),
                       cumulative |-> cum2, stopped |-> FALSE]
  IN  ForEach(Body, 1, Len(sorted),
              [selected |-> <<>>, cumulative |-> 0, stopped |-> FALSE]).selected

\* The selection loop: append, then break on the threshold or the cap.
SelectFrom(sorted, total, thr) ==
  LET Body(st, i) ==
        IF st.stopped THEN st
        ELSE LET cum2 == IF total > 0 THEN st.cumulative + sorted[i].score
                         ELSE st.cumulative
                 sel2 == Append(st.selected, sorted[i].token)
             IN  [selected |-> sel2, cumulative |-> cum2,
                  stopped |-> ReachedThreshold(cum2, total, thr)
                              \/ ReachedCap(Len(sel2))]
  IN  ForEach(Body, 1, Len(sorted),
              [selected |-> <<>>, cumulative |-> 0, stopped |-> FALSE]).selected

SelectTokens(d, thr) ==
  LET sorted_tokens == SortByScore(d)
  IN  SelectFrom(sorted_tokens, SumScores(sorted_tokens), thr)

\* The three keyword loops in the order of the code, each with the range of
\* its scores and whether it tests `token not in token_scores`.
KeywordLoops(lists) ==
  << [list |-> lists.high_importance, low |-> 800, high |-> 1000, guarded |-> FALSE],
     [list |-> lists.medium_importance, low |-> 500, high |-> 800, guarded |-> TRUE],
     [list |-> lists.sexist_indicators, low |-> 700, high |-> 950, guarded |-> TRUE] >>

\* The dict after the three keyword loops.
KeywordScores(lists, text_lower, pat) ==
  LET loops == KeywordLoops(lists)
      Body(st, k) == ScoreKeywords(loops[k].list, text_lower, st,
                                   loops[k].low, loops[k].high, loops[k].guarded, pat)
  IN  ForEach(Body, 1, Len(loops), [scores |-> <<>>, n |-> 0])

\* The whole of get_important_tokens, pat the random stream it consumes.
GetImportantTokens(t, lang, thr, pat) ==
  LET text_lower == Lower(t)
      look == LookupLanguage(lang)
  IN  IF look.exc # ""
      THEN [exc |-> look.exc, token_scores |-> <<>>, fallback_ran |-> FALSE,
            selected |-> <<>>]
      ELSE LET kw == KeywordScores(look.lists, text_lower, pat)
               fb == kw.scores = <<>>
               st == IF fb
                     THEN ScoreFallback(FallbackSlice(Split(text_lower)), kw, pat)
                     ELSE kw
           IN  [exc |-> "", token_scores |-> st.scores, fallback_ran |-> fb,
                selected |-> SelectTokens(st.scores, thr)]

---------------------------------------------------------------------------
(* highlight_tokens *)

\* \w of a str pattern: letters, digits and the underscore.
WordChars ==
  CharsOf(LowerLetters \o UpperLetters \o LowerAccented \o UpperAccented
          \o Digits \o "_")

IsWordChar(c) == c \in WordChars

\* \b at offset p of s (between s[p] and s[p+1]): exactly one side is a word
\* character; outside the string counts as a non-word character.
IsBoundary(s, p) ==
  LET before == p >= 1 /\ IsWordChar(Char(s, p))
      after == p + 1 <= Len(s) /\ IsWordChar(Char(s, p + 1))
  IN  before # after

\* r'\b' + re.escape(token) + r'\b' with re.IGNORECASE matches s at offset p.
MatchesAt(s, p, token) ==
  /\ p + Len(token) <= Len(s)
  /\ IsBoundary(s, p)
  /\ IsBoundary(s, p + Len(token))
  /\ \A i \in 1..Len(token) : LowerChar(Char(s, p + i)) = LowerChar(Char(token, i))

\* The one character an escape of the replacement template stands for when it
\* has no TLA+ literal (\a, \b, \v and the octal escapes).
ControlChar == "¤"

\* The escapes of a template that stand for one character.
EscapeTable ==
  [ n |-> "\n", t |-> "\t", r |-> "\r", f |-> "\f",
    a |-> ControlChar, b |-> ControlChar, v |-> ControlChar ]

AllZeros(s) == \A j \in 1..Len(s) : Char(s, j) = "0"

\* re's expansion of a replacement template for a pattern without groups, m the
\* matched text: [ok, out], ok FALSE when re.error is raised.  A template
\* without a backslash stands for itself.
ExpandTemplate(t, m) ==
  LET Emit(st, x, next) == [ok |-> TRUE, out |-> st.out \o x, pos |-> next]
      Fail(st) == [ok |-> FALSE, out |-> "", pos |-> Len(t) + 1]
      oct(i) == i <= Len(t) /\ Char(t, i) \in CharsOf(OctDigits)
      Escape(st, i) ==
        LET c == Char(t, i + 1)
            closing == { j \in (i + 3)..Len(t) : Char(t, j) = ">" }
        IN  CASE c = "\\" -> Emit(st, "\\", i + 2)
              [] c \in DOMAIN EscapeTable -> Emit(st, EscapeTable[c], i + 2)
              [] c = "g" ->
                   IF /\ i + 2 <= Len(t)
                      /\ Char(t, i + 2) = "<"
                      /\ closing # {}
                      /\ Min(closing) > i + 3
                      /\ AllZeros(SubSeq(t, i + 3, Min(closing) - 1))
                   THEN Emit(st, m, Min(closing) + 1)
                   ELSE Fail(st)
              [] c = "0" ->
                   Emit(st, ControlChar,
                        i + 2 + (IF oct(i + 2) THEN (IF oct(i + 3) THEN 2 ELSE 1)
                                 ELSE 0))
              [] c \in {"1", "2", "3"} /\ oct(i + 2) /\ oct(i + 3) ->
                   Emit(st, ControlChar, i + 4)
              [] c \in CharsOf(Digits) -> Fail(st)
              [] c \in AsciiLetters -> Fail(st)
              [] OTHER -> Emit(st, "\\" \o c, i + 2)
      Body(st, i) ==
        IF ~st.ok \/ i < st.pos THEN st
        ELSE IF Char(t, i) # "\\" THEN Emit(st, Char(t, i), i + 1)
        ELSE IF i = Len(t) THEN Fail(st)
        ELSE Escape(st, i)
      r == ForEach(Body, 1, Len(t), [ok |-> TRUE, out |-> "", pos |-> 1])
  IN  IF ~Contains(t, "\\") THEN [ok |-> TRUE, out |-> t]
      ELSE [ok |-> r.ok, out |-> r.out]

\* replacement = f"**{token}**"
Replacement(token) == "**" \o token \o "**"

\* re.sub(pattern, replacement, s, flags=re.IGNORECASE): the scan goes through
\* the offsets at which the pattern matches, from the left.  A match that
\* starts inside the previous one is skipped; the others are replaced by the
\* expanded template, and the text between them is copied.  st.pos is the
\* number of characters of s dealt with.
ReSub(s, token) ==
  LET at == Ascending({ q \in 0..Len(s) : MatchesAt(s, q, token) })
      Body(st, k) ==
        IF ~st.ok \/ at[k] < st.pos THEN st
        ELSE LET e == ExpandTemplate(Replacement(token),
                                     SubSeq(s, at[k] + 1, at[k] + Len(token)))
             IN  IF ~e.ok THEN [ok |-> FALSE, out |-> "", pos |-> at[k]]
                 ELSE [ok |-> TRUE,
                       out |-> st.out \o SubSeq(s, st.pos + 1, at[k]) \o e.out,
                       pos |-> at[k] + Len(token)]
      r == ForEach(Body, 1, Len(at), [ok |-> TRUE, out |-> "", pos |-> 0])
  IN  [ok |-> r.ok,
       out |-> IF r.ok THEN r.out \o SubSeq(s, r.pos + 1, Len(s)) ELSE ""]

\* sorted(important_tokens, key=len, reverse=True)
SortByLength(tokens) ==
  LET keyed == [i \in 1..Len(tokens) |-> [key |-> Len(tokens[i]), val |-> tokens[i]]]
      s == SortDesc(keyed)
  IN  [i \in 1..Len(s) |-> s[i].val]

\* The substitution loop of highlight_tokens.
HighlightLoop(sorted, t) ==
  LET Body(st, i) == IF ~st.ok THEN st ELSE ReSub(st.out, sorted[i])
  IN  ForEach(Body, 1, Len(sorted), [ok |-> TRUE, out |-> t])

\* The whole of highlight_tokens: [exc, out].
HighlightTokensOf(t, tokens) ==
  LET r == HighlightLoop(SortByLength(tokens), t)
  IN  [exc |-> IF r.ok THEN "" ELSE "re.error", out |-> r.out]

---------------------------------------------------------------------------
(* analyze_tweet *)

\* A record that stores the lowercased text as original_text.
AnalysisRecordLowered(t, lang, important_tokens, highlighted) ==
  [ original_text |-> Lower(t),
    important_tokens |-> important_tokens,
    highlighted_text |-> highlighted,
    language |-> lang,
    num_important_tokens |-> Len(important_tokens) ]

\* The dict analyze_tweet returns.
AnalysisRecord(t, lang, important_tokens, highlighted) ==
  [ original_text |-> t,
    important_tokens |-> important_tokens,
    highlighted_text |-> highlighted,
    language |-> lang,
    num_important_tokens |-> Len(important_tokens) ]

---------------------------------------------------------------------------
(* The state machine: one call of one method, from its arguments to its
   return value or exception *)

Ops == {"get_important_tokens", "highlight_tokens", "analyze_tweet"}

Init ==
  /\ pc = "call"
  /\ \/ /\ op = "get_important_tokens"
        /\ text \in Texts
        /\ language \in Languages
        /\ threshold \in Thresholds
        /\ tokens_arg = <<>>
     \/ /\ op = "analyze_tweet"
        /\ text \in Texts
        /\ language \in Languages
        /\ threshold = DefaultThreshold
        /\ tokens_arg = <<>>
     \/ /\ op = "highlight_tokens"
        /\ text \in HighlightTexts
        /\ tokens_arg \in TokenLists
        /\ language = "en"
        /\ threshold = DefaultThreshold
  /\ token_scores = <<>>
  /\ fallback_ran = FALSE
  /\ selected_tokens = <<>>
  /\ highlighted_text = ""
  /\ result = <<>>
  /\ exc = ""

get_important_tokens ==
  /\ pc = "call"
  /\ op = "get_important_tokens"
  /\ \E pat \in Patterns :
       \E r \in { GetImportantTokens(text, language, threshold, pat) } :
         /\ token_scores' = r.token_scores
         /\ fallback_ran' = r.fallback_ran
         /\ selected_tokens' = r.selected
         /\ exc' = r.exc
         /\ pc' = IF r.exc = "" THEN "return" ELSE "raise"
  /\ UNCHANGED <<op, text, language, threshold, tokens_arg, highlighted_text, result>>

highlight_tokens ==
  /\ pc = "call"
  /\ op = "highlight_tokens"
  /\ \E h \in { HighlightTokensOf(text, tokens_arg) } :
       /\ highlighted_text' = h.out
       /\ exc' = h.exc
       /\ pc' = IF h.exc = "" THEN "return" ELSE "raise"
  /\ UNCHANGED <<op, text, language, threshold, tokens_arg, token_scores,
                 fallback_ran, selected_tokens, result>>

\* analyze_tweet calls get_important_tokens with the default threshold, then
\* highlight_tokens on its result; an exception of either ends the call.
analyze_tweet ==
  /\ pc = "call"
  /\ op = "analyze_tweet"
  /\ \E pat \in Patterns :
       \E r \in { GetImportantTokens(text, language, DefaultThreshold, pat) } :
         /\ token_scores' = r.token_scores
         /\ fallback_ran' = r.fallback_ran
         /\ selected_tokens' = r.selected
         /\ IF r.exc # ""
            THEN /\ highlighted_text' = ""
                 /\ result' = <<>>
                 /\ exc' = r.exc
                 /\ pc' = "raise"
            ELSE \E h \in { HighlightTokensOf(text, r.selected) } :
                   /\ highlighted_text' = h.out
                   /\ result' = IF h.exc = ""
                                THEN <<AnalysisRecord(text, language, r.selected, h.out)>>
                                ELSE <<>>
                   /\ exc' = h.exc
                   /\ pc' = IF h.exc = "" THEN "return" ELSE "raise"
  /\ UNCHANGED <<op, text, language, threshold, tokens_arg>>

Next == get_important_tokens \/ highlight_tokens \/ analyze_tweet

Spec == Init /\ [][Next]_vars

---------------------------------------------------------------------------
(* Vocabulary of the properties *)

\* get_important_tokens has returned, called directly or by analyze_tweet.
Selected ==
  /\ pc = "return"
  /\ op \in {"get_important_tokens", "analyze_tweet"}

Supported == language \in DOMAIN ImportantTokens

NoDuplicates(seq) == \A i, j \in 1..Len(seq) : seq[i] = seq[j] => i = j

\* The keywords of a list that occur in the lowercased text.
KeywordsIn(list, t) == { kw \in SeqToSet(list) : Contains(Lower(t), kw) }

HighKeywordsInText ==
  KeywordsIn(ImportantTokens[language].high_importance, text)

AnyKeywordInText ==
  \/ KeywordsIn(ImportantTokens[language].high_importance, text) # {}
  \/ KeywordsIn(ImportantTokens[language].medium_importance, text) # {}
  \/ KeywordsIn(ImportantTokens[language].sexist_indicators, text) # {}

\* The score the call gave a token.
ScoreOf(tok) ==
  token_scores[CHOOSE i \in 1..Len(token_scores) : token_scores[i].token = tok].score

\* The entries that stand in front of entry i once the dict is ordered by
\* score descending, entries of equal score in the order of the dict.
Before(i) ==
  { j \in 1..Len(token_scores) :
      \/ token_scores[j].score > token_scores[i].score
      \/ /\ token_scores[j].score = token_scores[i].score
         /\ j < i }

\* The entry at place k of that order.
EntryAt(k) ==
  token_scores[CHOOSE i \in 1..Len(token_scores) : Cardinality(Before(i)) = k - 1]

RECURSIVE TopSum(_)
\* The sum of the k highest scores.
TopSum(k) == IF k = 0 THEN 0 ELSE TopSum(k - 1) + EntryAt(k).score

\* The first k tokens of the order reach the threshold: their scores, as a
\* share of the total, sum to at least threshold.
Reaches(k) ==
  1000 * TopSum(k) >= threshold * TopSum(Len(token_scores))

\* The number of tokens the selection keeps.
ExpectedLen ==
  IF token_scores = <<>> THEN 0
  ELSE Min({ k \in 1..Len(token_scores) :
               Reaches(k) \/ k = MaxSelected \/ k = Len(token_scores) })

\* The string without its '*' characters.
StripMarkers(s) ==
  LET Body(acc, i) == IF Char(s, i) = "*" THEN acc ELSE acc \o Char(s, i)
  IN  ForEach(Body, 1, Len(s), "")

\* The error of a language the table lacks: the KeyError of the subscript
\* self.important_tokens[language].
UnsupportedLanguageError == "KeyError"

---------------------------------------------------------------------------
(* C1 *)

\* C1, as stated: with the default threshold every high_importance keyword of
\* a supported language that occurs in the lowercased text is in the sequence
\* get_important_tokens returns.
C1_HighKeywordAlwaysReturned ==
  (Selected /\ Supported /\ threshold = DefaultThreshold)
    => \A kw \in HighKeywordsInText : kw \in SeqToSet(selected_tokens)

\* C1, amended: with the default threshold every high_importance keyword that
\* occurs in the lowercased text is returned unless 10 or more other scored
\* tokens have a score at least as high as its own; the threshold stop never
\* drops one, the cap of 10 does.
C1_HighKeywordReturnedWithinCap ==
  (Selected /\ Supported /\ threshold = DefaultThreshold)
    => \A kw \in HighKeywordsInText :
         Cardinality({ i \in 1..Len(token_scores) :
                         token_scores[i].score >= ScoreOf(kw) }) <= MaxSelected
           => kw \in SeqToSet(selected_tokens)

\* A call with the default threshold that left scored tokens out and kept a
\* high_importance keyword.
C1_Witness ==
  /\ Selected /\ Supported /\ threshold = DefaultThreshold
  /\ Len(selected_tokens) < Len(token_scores)
  /\ \E kw \in HighKeywordsInText : kw \in SeqToSet(selected_tokens)

---------------------------------------------------------------------------
(* C2 *)

\* C2: a call of get_important_tokens or analyze_tweet with a language that
\* is no key of the keyword table ends in UnsupportedLanguageError, with no
\* token scored and nothing returned.
C2_UnsupportedLanguageRaises ==
  (op \in {"get_important_tokens", "analyze_tweet"} /\ ~Supported /\ pc # "call")
    => /\ pc = "raise"
       /\ exc = UnsupportedLanguageError
       /\ token_scores = <<>>
       /\ selected_tokens = <<>>
       /\ highlighted_text = ""
       /\ result = <<>>

\* analyze_tweet on a text with keywords and the language "fr" has raised.
C2_Witness ==
  /\ op = "analyze_tweet"
  /\ language = "fr"
  /\ Contains(Lower(text), "women")
  /\ pc = "raise"
  /\ exc = UnsupportedLanguageError

---------------------------------------------------------------------------
(* C3 *)

\* C3: highlight_tokens keeps every character of the text, the casing of the
\* matched occurrences included: the output without the markers is the input
\* (without its own '*' characters, if it has any).
C3_HighlightPreservesText ==
  (pc = "return" /\ op = "highlight_tokens")
    => StripMarkers(highlighted_text) = StripMarkers(text)

---------------------------------------------------------------------------
(* C4 *)

\* C4: the sequence get_important_tokens returns has at most 10 elements,
\* for every text, supported language, threshold and outcome of the draws.
C4_AtMostTenTokens ==
  (Selected /\ Supported) => Len(selected_tokens) <= MaxSelected

\* More than 10 keywords matched and the call returned exactly 10.
C4_Witness ==
  /\ Selected /\ Supported
  /\ Len(token_scores) > MaxSelected
  /\ Len(selected_tokens) = MaxSelected

---------------------------------------------------------------------------
(* C5 *)

\* C5: the string highlight_tokens returns is at least as long as the text.
C5_HighlightNeverShrinks ==
  (pc = "return" /\ op = "highlight_tokens")
    => Len(highlighted_text) >= Len(text)

---------------------------------------------------------------------------
(* C6 *)

\* C6: the record analyze_tweet returns for a supported language holds the
\* text, the language, the selected tokens, their number, and the result of
\* highlight_tokens on the text and those same tokens.
C6_RecordConsistent ==
  (pc = "return" /\ op = "analyze_tweet" /\ Supported)
    => /\ Len(result) = 1
       /\ result[1].num_important_tokens = Len(result[1].important_tokens)
       /\ result[1].original_text = text
       /\ result[1].language = language
       /\ result[1].important_tokens = selected_tokens
       /\ result[1].highlighted_text
            = HighlightTokensOf(text, result[1].important_tokens).out

\* analyze_tweet returned a record with several tokens for a text whose
\* casing differs from the keywords'.
C6_Witness ==
  /\ pc = "return" /\ op = "analyze_tweet" /\ Supported
  /\ Len(result) = 1
  /\ result[1].num_important_tokens > 1
  /\ text # Lower(text)
  /\ result[1].highlighted_text # text

---------------------------------------------------------------------------
(* C7 *)

---------------------------------------------------------------------------
(* C8 *)

\* C8: the returned sequence is a prefix of the scored tokens ordered by
\* score descending, equal scores in the order they were first scored, and it
\* is the shortest prefix that reaches the threshold, cut at 10, or the whole
\* order (up to 10) when the threshold is never reached.
C8_ShortestPrefixReachingThreshold ==
  (Selected /\ Supported)
    => /\ Len(selected_tokens) = ExpectedLen
       /\ \A k \in 1..Len(selected_tokens) : selected_tokens[k] = EntryAt(k).token

\* A call stopped by the threshold after more than one token, with tokens of
\* equal score among those scored.
C8_Witness ==
  /\ Selected /\ Supported
  /\ Len(selected_tokens) > 1
  /\ Len(selected_tokens) < Len(token_scores)
  /\ Len(selected_tokens) < MaxSelected
  /\ \E i, j \in 1..Len(token_scores) :
       i # j /\ token_scores[i].score = token_scores[j].score

---------------------------------------------------------------------------
(* C9 *)

\* C9: one call gives each token one entry and returns it at most once, and a
\* high_importance keyword of the text keeps a score in [0.8, 1.0].
C9_OneEntryPerToken ==
  (Selected /\ Supported)
    => /\ NoDuplicates([i \in 1..Len(token_scores) |-> token_scores[i].token])
       /\ NoDuplicates(selected_tokens)
       /\ \A kw \in HighKeywordsInText :
            /\ HasKey(token_scores, kw)
            /\ ScoreOf(kw) >= 800
            /\ ScoreOf(kw) <= 1000

\* A Spanish text with 'mach' (twice in high_importance) and 'mujeres' (in
\* high_importance and medium_importance), both returned.
C9_Witness ==
  /\ Selected /\ language = "es"
  /\ {"mach", "mujeres"} \subseteq HighKeywordsInText
  /\ {"mach", "mujeres"} \subseteq SeqToSet(selected_tokens)

---------------------------------------------------------------------------
(* C10 *)

\* C10: for every threshold, get_important_tokens returns the empty sequence
\* exactly when no token was scored, and the first token returned has the
\* highest score.
C10_EmptyIffNothingScored ==
  (pc = "return" /\ op = "get_important_tokens" /\ Supported)
    => /\ selected_tokens = <<>> <=> token_scores = <<>>
       /\ token_scores # <<>>
            => \A i \in 1..Len(token_scores) :
                 ScoreOf(selected_tokens[1]) >= token_scores[i].score

\* A call with a threshold of 0 on a text with several keywords returned one
\* token.
C10_Witness ==
  /\ pc = "return" /\ op = "get_important_tokens" /\ Supported
  /\ threshold = 0
  /\ Len(token_scores) > 1
  /\ Len(selected_tokens) = 1

====
